---------------------------- MODULE Spec2Model ----------------------------
(***************************************************************************)
(* Blob_Analysis.py: a Fiji (ImageJ) Jython script.  It opens one 8-bit    *)
(* image and runs, in place on that one image `imp`, a median filter, an   *)
(* automatic threshold, the conversion to a binary mask, the binary        *)
(* watershed and the particle analyser.                                    *)
(*                                                                         *)
(* The state is the script's position, the current image, the ImageJ       *)
(* settings the script changes (black background, threshold, measurement   *)
(* redirect) and the results table.  Every script line is one action; the  *)
(* threshold search of line 6 is a loop and advances one iteration per     *)
(* step.  An ImageJ command is modelled by what the command does to the    *)
(* image with the options the script passes on that line.                  *)
(***************************************************************************)
EXTENDS Integers, Sequences, FiniteSets

VARIABLES
    mode,             \* "script": the option strings as written; "options": any option values
    scene,            \* history: which kind of image line 3 opened
    pc,               \* the script line to execute next
    imp,              \* the current image (NoImage before line 3)
    blackBackground,  \* Prefs.blackBackground, set by line 5
    iso,              \* the threshold search of line 6: NoLoop or [min, max, movingIndex]
    iterations,       \* history: iterations of the threshold search run so far
    redirect,         \* measurement redirect target, set by line 9
    radius,           \* the radius line 4 ran with (0 before)
    particleOpts,     \* the size/exclude options line 10 ran with
    gray,             \* history: the raster as it was when Convert to Mask started
    labels,           \* history: the particles line 10 traced, in discovery order
    table,            \* the results table
    stages,           \* history: names of the pipeline stages run so far
    ins,              \* history: what each stage read
    outs,             \* history: what each stage produced
    shown             \* imp.show() was called

vars == <<mode, scene, pc, imp, blackBackground, iso, iterations, redirect,
          radius,
          particleOpts, gray, labels, table, stages, ins, outs, shown>>

(***************************************************************************)
(* Bounds of the model                                                     *)
(***************************************************************************)
W == 5
H == 4
MaxRadius == 2
MaxMinArea == 3

(***************************************************************************)
(* Constants of the script                                                 *)
(***************************************************************************)
FirstLine == 3
LastLine == 11
Radius == 2
MinSize == 50
MaxValue == 255
MidLevel == 128

NoImage == [w |-> 0, h |-> 0, pix |-> <<>>, inv |-> FALSE, lower |-> 0, upper |-> -1]
NoLoop == [min |-> 0, max |-> 0, movingIndex |-> -1]
NoOpts == [minSize |-> 0, exclude |-> FALSE]

(***************************************************************************)
(* Arithmetic helpers                                                      *)
(***************************************************************************)
Abs(a) == IF a < 0 THEN -a ELSE a
Clamp(v, lo, hi) == IF v < lo THEN lo ELSE IF v > hi THEN hi ELSE v
ISqrt(n) == CHOOSE k \in 0..n : k * k <= n /\ (k + 1) * (k + 1) > n
SetMin(S) == CHOOSE m \in S : \A s \in S : m <= s
SetMax(S) == CHOOSE m \in S : \A s \in S : m >= s

RECURSIVE SumOver(_, _)
SumOver(S, f) ==
    IF S = {} THEN 0
    ELSE LET s == CHOOSE s \in S : TRUE IN f[s] + SumOver(S \ {s}, f)

(***************************************************************************)
(* Rasters: row-major, pixel i is (i % w, i \div w)                        *)
(***************************************************************************)
Pixels(ip) == 0..(ip.w * ip.h - 1)
PX(ip, i) == i % ip.w
PY(ip, i) == i \div ip.w
\* RankFilters pads a kernel that reaches outside with the nearest edge pixel
At(ip, x, y) == ip.pix[Clamp(y, 0, ip.h - 1) * ip.w + Clamp(x, 0, ip.w - 1)]

\* the pixel data of an image, without its LUT and threshold
Data(ip) == [w |-> ip.w, h |-> ip.h, pix |-> ip.pix]

Raster(w, h, f, inv) ==
    [w |-> w, h |-> h, pix |-> f, inv |-> inv, lower |-> 0, upper |-> -1]

(***************************************************************************)
(* Line 3: the images openImage may return.  A raster of the family is a   *)
(* background with one rectangle of another intensity (or none: a flat     *)
(* raster), with a normal or an inverting LUT (blobs.gif has an inverting  *)
(* one); two fixed scenes are added.                                       *)
(***************************************************************************)
Intensities == {<<255, 0>>, <<110, 100>>, <<101, 100>>, <<100, 100>>, <<200, 200>>}

RectRaster(w, h, bg, fg, x0, y0, x1, y1, inv) ==
    Raster(w, h,
           [i \in 0..(w * h - 1) |->
               IF x0 <= i % w /\ i % w <= x1 /\ y0 <= i \div w /\ i \div w <= y1
               THEN fg ELSE bg],
           inv)

RectRasters ==
    { RectRaster(W, H, c[1], c[2], x0, y0, x1, y1, inv) :
        c \in Intensities, x0 \in 0..(W - 1), x1 \in 0..(W - 1),
        y0 \in 0..(H - 1), y1 \in 0..(H - 1), inv \in BOOLEAN }

\* a 4x4 raster, one 2x2 block of intensity 0 on 255
BlockScene == RectRaster(4, 4, 255, 0, 1, 1, 2, 2, FALSE)

\* two 3x3 blocks one background column apart, on the top, left and right borders
TwoBlockScene ==
    Raster(7, 4,
           [i \in 0..27 |-> IF i \div 7 <= 2 /\ i % 7 # 3 THEN 0 ELSE 255],
           FALSE)

Scenes == {"rect", "block", "twoBlocks"}
Images(s) ==
    IF s = "block" THEN {BlockScene}
    ELSE IF s = "twoBlocks" THEN {TwoBlockScene}
    ELSE RectRasters

(***************************************************************************)
(* Line 4: "Median...", radius=r (RankFilters)                             *)
(***************************************************************************)
\* (a variant: the Euclidean disk dx^2 + dy^2 <= r^2, without the +1 of r2)
KernelDisk(r) ==
    { d \in (-r..r) \X (-r..r) : d[1] * d[1] + d[2] * d[2] <= r * r }

\* makeLineRadii: r2 = r*r + 1; the kernel line at dy reaches dx = sqrt(r2 - dy^2)
Kernel(r) ==
    LET r2 == r * r + 1
        k == ISqrt(r2)
    IN  { d \in (-k..k) \X (-k..k) : Abs(d[1]) <= ISqrt(r2 - d[2] * d[2]) }

MedianAt(ip, r, i) ==
    LET K == Kernel(r)
        v(d) == At(ip, PX(ip, i) + d[1], PY(ip, i) + d[2])
        half == Cardinality(K) \div 2
    IN  CHOOSE m \in {v(d) : d \in K} :
            /\ Cardinality({d \in K : v(d) < m}) <= half
            /\ Cardinality({d \in K : v(d) <= m}) > half

Median(ip, r) == [ip EXCEPT !.pix = [i \in Pixels(ip) |-> MedianAt(ip, r, i)]]

(***************************************************************************)
(* Line 6: setAutoThreshold "Default" (AutoThresholder.IJDefault)          *)
(***************************************************************************)
\* the histogram with bins 0 and 255 set to zero
Counted(ip) == {i \in Pixels(ip) : ip.pix[i] # 0 /\ ip.pix[i] # MaxValue}
HistMin(ip) ==
    IF Counted(ip) = {} THEN MaxValue ELSE SetMin({ip.pix[i] : i \in Counted(ip)})
HistMax(ip) ==
    IF Counted(ip) = {} THEN 0 ELSE SetMax({ip.pix[i] : i \in Counted(ip)})

\* result = (sum1/sum2 + sum3/sum4) / 2 as the fraction <<numerator, denominator>>
IsoResult(ip, m) ==
    LET lo == {i \in Counted(ip) : ip.pix[i] <= m}
        hi == {i \in Counted(ip) : ip.pix[i] > m}
        sum1 == SumOver(lo, ip.pix)
        sum2 == Cardinality(lo)
        sum3 == SumOver(hi, ip.pix)
        sum4 == Cardinality(hi)
    IN  <<sum1 * sum4 + sum3 * sum2, 2 * sum2 * sum4>>

\* Math.round of a positive fraction
Round(q) == (2 * q[1] + q[2]) \div (2 * q[2])

\* ... while ((movingIndex+1) <= result && movingIndex < max-1), result = q
IsoContinues(q, m, max) == (m + 1) * q[2] <= q[1] /\ m < max - 1

\* (a variant: the increment left out)
NextIndexStuck(m) == m

\* movingIndex++
NextIndex(m) == m + 1

\* "Default" without "dark": the low side, or the high side under an inverting LUT
SetThreshold(ip, level) ==
    IF ip.inv THEN [ip EXCEPT !.lower = level + 1, !.upper = MaxValue]
    ELSE [ip EXCEPT !.lower = 0, !.upper = level]

(***************************************************************************)
(* Line 7: "Convert to Mask" (Thresholder)                                 *)
(***************************************************************************)
ConvertToMask(ip, black) ==
    [ip EXCEPT
        !.pix = [i \in Pixels(ip) |->
                    IF ip.lower <= ip.pix[i] /\ ip.pix[i] <= ip.upper
                    THEN MaxValue ELSE 0],
        !.inv = ~black,
        !.lower = MaxValue,
        !.upper = MaxValue]

(***************************************************************************)
(* Line 8: "Watershed" (EDM).  The script fixes only that the command runs *)
(* on the mask in place: it sets foreground pixels (a segmentation line)   *)
(* to background and changes nothing else.  Whether and where a line falls *)
(* is decided inside ImageJ (distance map, maxima); the model admits no    *)
(* line, or one straight line across the foreground: a maximal horizontal  *)
(* or vertical run of foreground pixels.                                   *)
(***************************************************************************)
Background255(ip, black) == (ip.inv /\ black) \/ (~ip.inv /\ ~black)
Foreground(ip, black) ==
    {i \in Pixels(ip) : ip.pix[i] = (IF Background255(ip, black) THEN 0 ELSE MaxValue)}

Between(a, b) == (IF a <= b THEN a ELSE b)..(IF a <= b THEN b ELSE a)

HRun(ip, fg, i) ==
    {j \in fg : /\ PY(ip, j) = PY(ip, i)
                /\ \A x \in Between(PX(ip, i), PX(ip, j)) : PY(ip, i) * ip.w + x \in fg}

VRun(ip, fg, i) ==
    {j \in fg : /\ PX(ip, j) = PX(ip, i)
                /\ \A y \in Between(PY(ip, i), PY(ip, j)) : y * ip.w + PX(ip, i) \in fg}

Cuts(ip, black) ==
    LET fg == Foreground(ip, black)
    IN  {{}} \cup {HRun(ip, fg, i) : i \in fg} \cup {VRun(ip, fg, i) : i \in fg}

Watershed(ip, black, cut) ==
    [ip EXCEPT !.pix = [i \in Pixels(ip) |->
        IF i \in cut THEN (IF Background255(ip, black) THEN MaxValue ELSE 0)
        ELSE ip.pix[i]]]

(***************************************************************************)
(* Line 10: "Analyze Particles..." (ParticleAnalyzer).  The raster is      *)
(* scanned row by row; a pixel inside the threshold that belongs to no     *)
(* particle yet starts one, which is traced 8-connected (no "include", no  *)
(* 4-connected option), measured, and then erased from the scan.           *)
(***************************************************************************)
Adjacent8(w, i, j) ==
    /\ i # j
    /\ Abs((i % w) - (j % w)) <= 1
    /\ Abs((i \div w) - (j \div w)) <= 1

RECURSIVE Flood(_, _, _)
Flood(w, fg, seen) ==
    LET nxt == {j \in fg \ seen : \E i \in seen : Adjacent8(w, i, j)}
    IN  IF nxt = {} THEN seen ELSE Flood(w, fg, seen \cup nxt)

\* (a variant: the start pixel itself is not made part of the particle)
TraceParticleNoStart(w, fg, start) == Flood(w, fg, {start}) \ {start}

\* the particle the scan finds at the start pixel
TraceParticle(w, fg, start) == Flood(w, fg, {start})

\* the particles in the order in which the scan meets them
RECURSIVE Particles(_, _)
Particles(w, fg) ==
    IF fg = {} THEN <<>>
    ELSE LET start == SetMin(fg)
             p == TraceParticle(w, fg, start)
         IN  <<p>> \o Particles(w, fg \ (p \cup {start}))

Thresholded(ip) == {i \in Pixels(ip) : ip.lower <= ip.pix[i] /\ ip.pix[i] <= ip.upper}

\* the label map of the particles: 0 outside, k on the k-th particle
LabelMap(ip, ps) ==
    [i \in Pixels(ip) |->
        IF \E k \in 1..Len(ps) : i \in ps[k]
        THEN CHOOSE k \in 1..Len(ps) : i \in ps[k]
        ELSE 0]

Label(ip) == LabelMap(ip, Particles(ip.w, Thresholded(ip)))

\* the bounding rectangle of a particle: x, y, width, height
Bounds(w, p) ==
    LET xs == {i % w : i \in p}
        ys == {i \div w : i \in p}
    IN  [x |-> SetMin(xs), y |-> SetMin(ys),
         width |-> SetMax(xs) - SetMin(xs) + 1,
         height |-> SetMax(ys) - SetMin(ys) + 1]

\* (a variant: the right and bottom edges tested one pixel too far out)
OnEdgeOffByOne(ip, r) ==
    r.x = 0 \/ r.y = 0 \/ r.x + r.width = ip.w + 1 \/ r.y + r.height = ip.h + 1

\* r.x==minX || r.y==minY || r.x+r.width==maxX || r.y+r.height==maxY
OnEdge(ip, r) ==
    r.x = 0 \/ r.y = 0 \/ r.x + r.width = ip.w \/ r.y + r.height = ip.h

\* the measurements of line 9 (area mean min centroid integrated) of particle p,
\* read from src.  mean = rawIntDen/area; the centroid is that of the pixel
\* centres, (xsum/area + 0.5, ysum/area + 0.5), kept as twice its numerator
\* over area: x2 = 2*xsum + area.
Statistics(src, p) ==
    LET vals == {src.pix[i] : i \in p}
    IN  [area |-> Cardinality(p),
         rawIntDen |-> SumOver(p, src.pix),
         min |-> SetMin(vals),
         max |-> SetMax(vals),
         x2 |-> 2 * SumOver(p, [i \in p |-> i % src.w]) + Cardinality(p),
         y2 |-> 2 * SumOver(p, [i \in p |-> i \div src.w]) + Cardinality(p),
         roi |-> p]

\* (a variant: the lower limit taken as exclusive)
InSizeRangeExclusive(area, minSize) == area > minSize

\* size=minSize-Infinity: stats.pixelCount >= minSize (no upper limit)
InSizeRange(area, minSize) == area >= minSize

\* exclude: a particle whose bounding rectangle reaches the image edge is left out
Include(ip, p, exclude) == ~(exclude /\ OnEdge(ip, Bounds(ip.w, p)))

RECURSIVE Measure(_, _, _, _)
Measure(ip, src, ps, opts) ==
    IF ps = <<>> THEN <<>>
    ELSE LET p == Head(ps)
             stats == Statistics(src, p)
             rest == Measure(ip, src, Tail(ps), opts)
         IN  IF InSizeRange(stats.area, opts.minSize) /\ Include(ip, p, opts.exclude)
             THEN <<stats>> \o rest
             ELSE rest

\* redirect=None: the measurements are read from the image that is analysed
MeasuredImage(ip, grayscale, target) == IF target = "None" THEN ip ELSE grayscale

(***************************************************************************)
(* The script                                                              *)
(***************************************************************************)
Done == LastLine + 1
\* (a variant: the script without its line 8)
NextLineSkipsWatershed(l) == IF l = 7 THEN 9 ELSE l + 1

NextLine(l) == l + 1

\* the option values of lines 4 and 10: as written, or any
Radii == IF mode = "script" THEN {Radius} ELSE 1..MaxRadius
ParticleOptions ==
    IF mode = "script" THEN {[minSize |-> MinSize, exclude |-> TRUE]}
    ELSE [minSize : 1..MaxMinArea, exclude : BOOLEAN]

InitCommon ==
    /\ scene = "none"
    /\ pc = FirstLine
    /\ imp = NoImage
    /\ blackBackground = FALSE
    /\ iso = NoLoop
    /\ iterations = 0
    /\ redirect = "None"
    /\ radius = 0
    /\ particleOpts = NoOpts
    /\ gray = NoImage
    /\ labels = <<>>
    /\ table = <<>>
    /\ stages = <<>>
    /\ ins = <<>>
    /\ outs = <<>>
    /\ shown = FALSE

Init == mode = "script" /\ InitCommon
InitOptions == mode = "options" /\ InitCommon

\* line 3: imp = IJ.openImage(url)
openImage ==
    /\ pc = 3
    /\ \E s \in Scenes :
        /\ scene' = s
        /\ \E img \in Images(s) : imp' = img
    /\ pc' = NextLine(pc)
    /\ UNCHANGED <<mode, blackBackground, iso, iterations, redirect, radius,
                   particleOpts, gray, labels, table, stages, ins, outs, shown>>

\* line 4: IJ.run(imp, "Median...", "radius=2")
RunMedian ==
    /\ pc = 4
    /\ \E r \in Radii :
        /\ radius' = r
        /\ imp' = Median(imp, r)
    /\ stages' = Append(stages, "Denoiser")
    /\ ins' = Append(ins, Data(imp))
    /\ outs' = Append(outs, Data(imp'))
    /\ pc' = NextLine(pc)
    /\ UNCHANGED <<mode, scene, blackBackground, iso, iterations, redirect, particleOpts,
                   gray, labels, table, shown>>

\* line 5: IJ.run(imp, "Options...", "iterations=1 count=1 black")
RunOptions ==
    /\ pc = 5
    /\ blackBackground' = TRUE
    /\ pc' = NextLine(pc)
    /\ UNCHANGED <<mode, scene, imp, iso, iterations, redirect, radius, particleOpts,
                   gray, labels, table, stages, ins, outs, shown>>

\* line 6: IJ.setAutoThreshold(imp, "Default"), up to the threshold search
setAutoThreshold ==
    /\ pc = 6
    /\ iso = NoLoop
    /\ LET min == HistMin(imp)
           max == HistMax(imp)
       IN  IF min >= max
           THEN /\ imp' = SetThreshold(imp, MidLevel)
                /\ pc' = NextLine(pc)
                /\ iso' = iso
           ELSE /\ iso' = [min |-> min, max |-> max, movingIndex |-> min]
                /\ UNCHANGED <<imp, pc>>
    /\ UNCHANGED <<mode, scene, blackBackground, iterations, redirect, radius,
                   particleOpts, gray, labels, table, stages, ins, outs, shown>>

\* line 6: one iteration of the threshold search (the body of the do-while,
\* then its test)
IsoStep ==
    /\ pc = 6
    /\ iso # NoLoop
    /\ LET q == IsoResult(imp, iso.movingIndex)
           m == NextIndex(iso.movingIndex)
       IN  /\ iso' = [iso EXCEPT !.movingIndex = m]
           /\ iterations' = iterations + 1
           /\ IF IsoContinues(q, m, iso.max)
              THEN UNCHANGED <<imp, pc>>
              ELSE /\ imp' = SetThreshold(imp, Round(q))
                   /\ pc' = NextLine(pc)
    /\ UNCHANGED <<mode, scene, blackBackground, redirect, radius, particleOpts,
                   gray, labels, table, stages, ins, outs, shown>>

\* line 7: IJ.run(imp, "Convert to Mask", "")
RunConvertToMask ==
    /\ pc = 7
    /\ gray' = imp
    /\ imp' = ConvertToMask(imp, blackBackground)
    /\ stages' = Append(stages, "Binarizer")
    /\ ins' = Append(ins, Data(imp))
    /\ outs' = Append(outs, Data(imp'))
    /\ pc' = NextLine(pc)
    /\ UNCHANGED <<mode, scene, blackBackground, iso, iterations, redirect, radius,
                   particleOpts, labels, table, shown>>

\* line 8: IJ.run(imp, "Watershed", "")
RunWatershed ==
    /\ pc = 8
    /\ \E cut \in Cuts(imp, blackBackground) :
        imp' = Watershed(imp, blackBackground, cut)
    /\ stages' = Append(stages, "Segmenter")
    /\ ins' = Append(ins, Data(imp))
    /\ outs' = Append(outs, Data(imp'))
    /\ pc' = NextLine(pc)
    /\ UNCHANGED <<mode, scene, blackBackground, iso, iterations, redirect, radius,
                   particleOpts, gray, labels, table, shown>>

\* line 9: IJ.run(imp, "Set Measurements...", "... redirect=None decimal=3")
RunSetMeasurements ==
    /\ pc = 9
    /\ redirect' = "None"
    /\ pc' = NextLine(pc)
    /\ UNCHANGED <<mode, scene, imp, blackBackground, iso, iterations, radius, particleOpts,
                   gray, labels, table, stages, ins, outs, shown>>

\* line 10: IJ.run(imp, "Analyze Particles...", "size=50-Infinity display exclude clear summarize add")
RunAnalyzeParticles ==
    /\ pc = 10
    /\ LET ps == Particles(imp.w, Thresholded(imp))
       IN  /\ labels' = ps
           /\ ins' = ins \o <<Data(imp), LabelMap(imp, ps)>>
           /\ \E opts \in ParticleOptions :
                /\ particleOpts' = opts
                /\ table' = Measure(imp, MeasuredImage(imp, gray, redirect), ps, opts)
           /\ outs' = outs \o <<LabelMap(imp, ps), table'>>
    /\ stages' = stages \o <<"Labeler", "Measurer">>
    /\ pc' = NextLine(pc)
    /\ UNCHANGED <<mode, scene, imp, blackBackground, iso, iterations, redirect, radius,
                   gray, shown>>

\* line 11: imp.show()
show ==
    /\ pc = 11
    /\ shown' = TRUE
    /\ pc' = NextLine(pc)
    /\ UNCHANGED <<mode, scene, imp, blackBackground, iso, iterations, redirect, radius,
                   particleOpts, gray, labels, table, stages, ins, outs>>

Next ==
    \/ openImage
    \/ RunMedian
    \/ RunOptions
    \/ setAutoThreshold
    \/ IsoStep
    \/ RunConvertToMask
    \/ RunWatershed
    \/ RunSetMeasurements
    \/ RunAnalyzeParticles
    \/ show

Spec == Init /\ [][Next]_vars
SpecOptions == InitOptions /\ [][Next]_vars

(***************************************************************************)
(* Properties                                                              *)
(***************************************************************************)
AfterAnalysis == pc > 10
Excluding == particleOpts.exclude
MinArea == particleOpts.minSize

\* a particle with a member pixel in row 0, row h-1, column 0 or column w-1
TouchesBorder(p) ==
    \E i \in p : \/ PX(imp, i) = 0 \/ PX(imp, i) = imp.w - 1
                 \/ PY(imp, i) = 0 \/ PY(imp, i) = imp.h - 1

ParticleSet == {labels[k] : k \in 1..Len(labels)}
Records == {table[k] : k \in 1..Len(table)}
RecordsOf(p) == {k \in 1..Len(table) : table[k].roi = p}

StageOrder == <<"Denoiser", "Binarizer", "Segmenter", "Labeler", "Measurer">>
\* how many stages lie on the script lines before line l
StagesBefore(l) ==
    IF l <= 4 THEN 0 ELSE IF l <= 7 THEN 1 ELSE IF l = 8 THEN 2
    ELSE IF l <= 10 THEN 3 ELSE 5

C2_AreaFilter ==
    AfterAnalysis =>
        /\ \A r \in Records : r.area >= MinArea
        /\ \A p \in ParticleSet :
            /\ Cardinality(p) < MinArea => RecordsOf(p) = {}
            /\ (Cardinality(p) >= MinArea /\ ~(Excluding /\ TouchesBorder(p)))
                    => \E k \in RecordsOf(p) : table[k].area = Cardinality(p)

\* a run that kept a particle of area exactly minArea > 1 and dropped a smaller one
C2_Witness ==
    /\ pc = Done
    /\ MinArea > 1
    /\ \E r \in Records : r.area = MinArea
    /\ \E p \in ParticleSet : Cardinality(p) < MinArea

\* the statistics of particle p read from image src, centroid of the pixel centres
StatsAre(r, p, src) ==
    /\ r.area = Cardinality(p)
    /\ r.rawIntDen = SumOver(p, src.pix)
    /\ r.min = SetMin({src.pix[i] : i \in p})
    /\ r.max = SetMax({src.pix[i] : i \in p})
    /\ r.x2 = SumOver(p, [i \in p |-> 2 * PX(src, i) + 1])
    /\ r.y2 = SumOver(p, [i \in p |-> 2 * PY(src, i) + 1])

C5_MeasuredOnGrayscale ==
    AfterAnalysis => \A r \in Records : StatsAre(r, r.roi, gray)

\* the raster that was binarized holds one single intensity
Flat(ip) == \A i \in Pixels(ip) : ip.pix[i] = ip.pix[0]
AllBackground(d) == \A i \in 0..(d.w * d.h - 1) : d.pix[i] = 0
AllForeground(d) == \A i \in 0..(d.w * d.h - 1) : d.pix[i] = MaxValue
\* the side of the threshold that "Default" selects
Selected(ip, v) == IF ip.inv THEN v > MidLevel ELSE v <= MidLevel

\* C6 as stated: a flat raster is binarized to an all-background mask
C6_FlatIsBackground ==
    (Len(outs) >= 2 /\ Flat(gray)) => AllBackground(outs[2])

\* C6 (amended): the threshold search ends on every raster: it runs at most
\* max - min iterations (the moving index starts at the lowest occupied level,
\* rises by one per iteration and never passes the highest), and the script
\* goes on to line 7 with a threshold set.  A flat raster gets the threshold
\* 128 without any iteration and a uniform mask: all foreground when its
\* intensity is on the selected side of 128, all background otherwise.
C6_SearchTerminates ==
    /\ iso = NoLoop => iterations = 0
    /\ iso # NoLoop =>
            /\ iso.min < iso.max
            /\ iterations = iso.movingIndex - iso.min
            /\ iterations <= iso.max - iso.min
            /\ pc = 6 => iso.movingIndex < iso.max
    /\ pc > 6 => imp.lower <= imp.upper
    /\ (Len(outs) >= 2 /\ Flat(gray)) =>
            /\ iterations = 0
            /\ gray.lower = (IF gray.inv THEN MidLevel + 1 ELSE 0)
            /\ gray.upper = (IF gray.inv THEN MaxValue ELSE MidLevel)
            /\ IF Selected(gray, gray.pix[0])
               THEN AllForeground(outs[2]) ELSE AllBackground(outs[2])

\* a flat raster binarized to an all-foreground mask
C6_Witness ==
    /\ pc = 8
    /\ Flat(gray)
    /\ AllForeground(outs[2])

BlockRun ==
    /\ scene = "block"
    /\ pc = Done
    /\ particleOpts = [minSize |-> 1, exclude |-> FALSE]

\* C7 as stated: the 4x4 scene with one 2x2 block gives one record with
\* area 4, centroid (1.5, 1.5) and mean 0
C7_OneRecord ==
    BlockRun =>
        /\ Len(table) = 1
        /\ table[1].area = 4
        /\ table[1].rawIntDen = 0
        /\ table[1].x2 \in {12, 16}
        /\ table[1].y2 \in {12, 16}

\* C7 (amended): on the 4x4 scene with one 2x2 block, with minArea = 1 and
\* no edge exclusion, for every median radius the table is empty: the
\* median replaces the block by background and nothing is thresholded.
C7_EmptyTable ==
    BlockRun =>
        /\ table = <<>>
        /\ AllBackground(outs[2])
        /\ \A i \in 0..15 : outs[1].pix[i] = MaxValue

C7_Witness == BlockRun /\ radius = 1 /\ ins[1] = Data(BlockScene)

\* the mask whose foreground is the labelled pixels of a label map
MaskOf(lm) ==
    [imp EXCEPT !.pix = [i \in Pixels(imp) |-> IF lm[i] # 0 THEN MaxValue ELSE 0],
                !.lower = MaxValue, !.upper = MaxValue]

SamePartition(a, b) ==
    \A i, j \in Pixels(imp) :
        /\ (a[i] = 0) <=> (b[i] = 0)
        /\ (a[i] # 0 /\ a[i] = a[j]) <=> (b[i] # 0 /\ b[i] = b[j])

=============================================================================
